---- MODULE Spec2Model ----
(***************************************************************************)
(* The background data runloop of runloop_data.c: the NBIO file pipeline,  *)
(* the image (PNG) pipeline it feeds, the HTTP pipeline, the three message *)
(* queues, init / deinit / clear_state and the optional worker thread.     *)
(*                                                                         *)
(* The C state g_data_runloop is the variable g_data_runloop.  The objects *)
(* behind its handles (file reader, PNG decoder, HTTP connection, HTTP     *)
(* transfer, texture) live in heap.  obs records what the collaborators    *)
(* saw (load_background, texture_image_free, callbacks, frees).  The       *)
(* pipeline functions are operators from a world w = [g, heap, obs] to the *)
(* world they leave; one tick composes them in the order of the code.      *)
(***************************************************************************)
EXTENDS Integers, Sequences, FiniteSets, TLC

VARIABLES
    g_data_runloop,   \* struct data_runloop g_data_runloop
    heap,             \* the adapter objects the handles point to
    obs,              \* observations made by the collaborators
    threaded_data_runloop_enable, \* g_settings.menu.threaded_data_runloop_enable
    fpc,              \* the foreground thread's position
    wpc,              \* the worker thread's position
    pushing,          \* the queue a foreground push has selected, and its message
    frame             \* parity of the frames in which the foreground ran the tick

vars == <<g_data_runloop, heap, obs, threaded_data_runloop_enable, fpc, wpc, pushing,
          frame>>

----------------------------------------------------------------------------
(* Bounds of the model *)

MaxQueue == 1        \* requests a queue holds before the model stops pushing
MaxReadLeft == 5     \* nbio_iterate calls a reader answers "more" to
MaxProcLeft == 1     \* process calls a decoder answers NEXT to
MaxConnLeft == 1     \* connection_iterate calls answered "not yet complete"
MaxXferLeft == 1     \* net_http_update calls answered "not yet complete"
MaxCount == 2        \* the observation counters saturate here

(* Program constants *)

QueueSize == 8       \* msg_queue_new(8)
NbioPosIncrement == 5

----------------------------------------------------------------------------
(* Values *)

NULL == "NULL"
PTR == "PTR"

DATA_TYPE_NONE == "NONE"
DATA_TYPE_FILE == "FILE"
DATA_TYPE_IMAGE == "IMAGE"
DATA_TYPE_HTTP == "HTTP"
DATA_TYPE_OVERLAY == "OVERLAY"

IMAGE_PROCESS_NEXT == "NEXT"
IMAGE_PROCESS_END == "END"
IMAGE_PROCESS_ERROR == "ERROR"
IMAGE_PROCESS_ERROR_END == "ERROR_END"

Min(a, b) == IF a < b THEN a ELSE b
Sat(n, m) == Min(n + 1, m)

(* frame_count++: the frame counters are only logged and reset, so the model
   keeps whether a counter is zero. *)
Incremented(n) == IF n = 0 THEN n + 1 ELSE n

(* A request "msg|msg2" as snprintf builds it. *)
Msg(msg, msg2) == [msg |-> msg, msg2 |-> msg2]
NoMsg == Msg(NULL, NULL)

(* string_split(s, "|"): the number of elements (strtok skips an empty one). *)
SplitSize(m) == (IF m.msg = "" THEN 0 ELSE 1) + (IF m.msg2 = "" THEN 0 ELSE 1)

----------------------------------------------------------------------------
(* msg_queue_t: a bounded FIFO; a NULL queue pointer is alloc = FALSE. *)

NoQueue == [alloc |-> FALSE, msgs |-> <<>>]

msg_queue_new == [alloc |-> TRUE, msgs |-> <<>>]

msg_queue_front(q) == IF q.alloc /\ q.msgs # <<>> THEN Head(q.msgs) ELSE NoMsg

msg_queue_pull(q) == IF q.alloc /\ q.msgs # <<>> THEN [q EXCEPT !.msgs = Tail(@)] ELSE q

msg_queue_clear(q) == IF q.alloc THEN [q EXCEPT !.msgs = <<>>] ELSE q

msg_queue_push(q, m) ==
    IF q.alloc /\ Len(q.msgs) < QueueSize THEN [q EXCEPT !.msgs = Append(@, m)] ELSE q

----------------------------------------------------------------------------
(* The zeroed structures (memset in rarch_main_data_init) *)

nbio_image_handle_zero ==
    [ is_blocking |-> FALSE, is_blocking_on_processing |-> FALSE,
      is_finished |-> FALSE, is_finished_with_processing |-> FALSE,
      cb |-> NULL, handle |-> NULL,
      processing_pos_increment |-> 0, pos_increment |-> 0,
      frame_count |-> 0, processing_frame_count |-> 0,
      processing_final_state |-> IMAGE_PROCESS_NEXT,
      msg_queue |-> NoQueue ]

nbio_handle_zero ==
    [ image |-> nbio_image_handle_zero,
      is_blocking |-> FALSE, is_finished |-> FALSE,
      cb |-> NULL, handle |-> NULL,
      pos_increment |-> 0, frame_count |-> 0,
      msg_queue |-> NoQueue ]

http_handle_zero ==
    [ connection |-> [handle |-> NULL, cb |-> NULL, elem1 |-> ""],
      msg_queue |-> NoQueue, handle |-> NULL, cb |-> NULL ]

data_runloop_zero ==
    [ http |-> http_handle_zero, nbio |-> nbio_handle_zero,
      inited |-> FALSE, thread_inited |-> FALSE, thread_quit |-> FALSE,
      lock |-> NULL, cond_lock |-> NULL, cond |-> NULL, thread |-> NULL ]

(* The adapter objects behind the handles, and lost: the last tick (or the
   last init) left an object of the kind unreleased with no pointer to it.
   A reader answers "more" left times and then reports
   end-of-stream (or an error: nbio_iterate does not tell them apart); len is
   what nbio_get_ptr reports.  A decoder parses the chunks of its stream, then
   answers NEXT proc_left times to process and proc_final afterwards. *)

NoReader == [left |-> 0, len |-> 0]
NoDecoder ==
    [ chunks |-> <<>>, has_ihdr |-> FALSE, has_idat |-> FALSE, has_iend |-> FALSE,
      proc_left |-> 0, proc_final |-> IMAGE_PROCESS_END, freed |-> FALSE ]
NoConn == [left |-> 0, done |-> FALSE]
NoXfer == [left |-> 0, has_data |-> FALSE]

heap_empty ==
    [ nbio |-> NoReader, rpng |-> NoDecoder, conn |-> NoConn, http |-> NoXfer,
      ti_pixels |-> FALSE,
      lost |-> [nbio |-> FALSE, rpng |-> FALSE, conn |-> FALSE, http |-> FALSE] ]

obs_empty ==
    [ load_background |-> 0, texture_free |-> 0,
      http_cb |-> 0, http_cb_name |-> NULL, http_token |-> NULL,
      calls |-> [ nbio_cb |-> FALSE, nbio_free_under_decoder |-> FALSE,
                  image_cb |-> NULL,
                  nbio_iterate |-> 0, rpng_iterate |-> 0, rpng_process |-> 0,
                  rpng_free_of_freed |-> FALSE, rpng_use_of_freed |-> FALSE ] ]

(* A function's result: the world it leaves and the int it returns. *)
R(w, ret) == [w |-> w, ret |-> ret]

----------------------------------------------------------------------------
(* What the adapters may answer when an object is created.  Each tick draws
   one of each; a draw is used only by the call that creates the object. *)

FileLens == {1, 8}
StackTokens == {"", "cb_menu_wallpaper"}

FileChoiceNone ==
    [ split_ok |-> TRUE, open_ok |-> TRUE, left |-> 0, len |-> 1, elem1 |-> "" ]
FileOpens ==
    { [FileChoiceNone EXCEPT !.left = n, !.len = l, !.elem1 = e] :
        n \in {0, MaxReadLeft}, l \in FileLens, e \in StackTokens }
FileChoices ==
    FileOpens \cup { [FileChoiceNone EXCEPT !.split_ok = FALSE],
                     [FileChoiceNone EXCEPT !.open_ok = FALSE] }

PngGood == <<"IHDR", "IDAT", "IEND">>
PngStreams == { PngGood, <<"IHDR", "IDAT">>, <<"IHDR", "IEND">>, <<"IDAT", "IEND">> }
ProcFinals == {IMAGE_PROCESS_END, IMAGE_PROCESS_ERROR, IMAGE_PROCESS_ERROR_END}

DecoderChoiceNone ==
    [ alloc_ok |-> TRUE, ptr_ok |-> TRUE, start_ok |-> TRUE,
      chunks |-> PngGood, proc_left |-> 0, proc_final |-> IMAGE_PROCESS_END ]
DecoderStarts ==
    { [DecoderChoiceNone EXCEPT !.chunks = ch, !.proc_left = pl, !.proc_final = pf] :
        ch \in PngStreams, pl \in 0..MaxProcLeft, pf \in ProcFinals }
DecoderChoices ==
    DecoderStarts \cup { [DecoderChoiceNone EXCEPT !.alloc_ok = FALSE],
                         [DecoderChoiceNone EXCEPT !.ptr_ok = FALSE],
                         [DecoderChoiceNone EXCEPT !.start_ok = FALSE] }

(* What a read through a dangling decoder pointer may find: one state for
   each way the calls made on it can answer (iterate: stop or go on; the three
   chunk flags: all set or not; process: NEXT, END or ERROR). *)
FreedDecoder(ch, h, pl, pf) ==
    [ chunks |-> ch, has_ihdr |-> h, has_idat |-> h, has_iend |-> h,
      proc_left |-> pl, proc_final |-> pf, freed |-> TRUE ]
FreedDecoderStates ==
    { FreedDecoder(<<>>, FALSE, 0, IMAGE_PROCESS_ERROR),
      FreedDecoder(<<"IDAT">>, FALSE, 0, IMAGE_PROCESS_ERROR),
      FreedDecoder(<<>>, TRUE, 0, IMAGE_PROCESS_ERROR),
      FreedDecoder(<<>>, TRUE, 0, IMAGE_PROCESS_END),
      FreedDecoder(<<>>, TRUE, 1, IMAGE_PROCESS_END) }

----------------------------------------------------------------------------
(* The NBIO reader and PNG decoder adapters *)

(* nbio_iterate: TRUE on end-of-stream or error, FALSE to ask for another step. *)
nbio_iterate(w) ==
    LET w1 == [w EXCEPT !.obs.calls.nbio_iterate = @ + 1]
    IN  IF w.heap.nbio.left = 0 THEN R(w1, TRUE)
        ELSE R([w1 EXCEPT !.heap.nbio.left = @ - 1], FALSE)

(* rpng_nbio_load_image_argb_iterate(buff_data, rpng): parses the chunk at the
   cursor and records it; FALSE at IEND, at the end of the buffer or on error. *)
rpng_nbio_load_image_argb_iterate(w) ==
    LET d  == w.heap.rpng
        w1 == [w EXCEPT !.obs.calls.rpng_iterate = @ + 1,
                        !.obs.calls.rpng_use_of_freed = @ \/ d.freed]
    IN  IF d.chunks = <<>> THEN R(w1, FALSE)
        ELSE LET c == Head(d.chunks)
                 w2 == [w1 EXCEPT !.heap.rpng.has_ihdr = @ \/ c = "IHDR",
                                  !.heap.rpng.has_idat = @ \/ c = "IDAT",
                                  !.heap.rpng.has_iend = @ \/ c = "IEND"]
             IN  R(w2, c # "IEND")

(* rpng_nbio_load_image_argb_process: NEXT while work is left, then the
   decoder's final result; END leaves the pixels in the texture. *)
rpng_nbio_load_image_argb_process(w) ==
    LET d  == w.heap.rpng
        w1 == [w EXCEPT !.obs.calls.rpng_process = @ + 1,
                        !.obs.calls.rpng_use_of_freed = @ \/ d.freed]
    IN  IF d.proc_left > 0
        THEN R([w1 EXCEPT !.heap.rpng.proc_left = @ - 1], IMAGE_PROCESS_NEXT)
        ELSE R([w1 EXCEPT !.heap.ti_pixels = @ \/ d.proc_final = IMAGE_PROCESS_END],
               d.proc_final)

(* rpng_nbio_load_image_free: releases the decoder. *)
rpng_nbio_load_image_free(w) ==
    IF w.heap.rpng.freed
    THEN [w EXCEPT !.obs.calls.rpng_free_of_freed = TRUE]
    ELSE [w EXCEPT !.heap.rpng.freed = TRUE]

(* driver->menu_ctx->load_background is provided by the menu driver. *)
MenuCtxHasLoadBackground == TRUE

----------------------------------------------------------------------------
(* Image callbacks *)

(* Faulty variant: the upload callback that leaves is_blocking_on_processing
   set when it blocks the image sub-state. *)
cb_image_menu_wallpaper_upload_keeps_processing(w) ==
    IF w.g.nbio.image.processing_final_state
          \in {IMAGE_PROCESS_ERROR, IMAGE_PROCESS_ERROR_END}
    THEN R(w, -1)
    ELSE R([w EXCEPT
              !.obs.load_background =
                  IF MenuCtxHasLoadBackground THEN Sat(@, MaxCount) ELSE @,
              !.obs.texture_free = Sat(@, MaxCount),
              !.heap.ti_pixels = FALSE,
              !.g.nbio.image.is_finished_with_processing = TRUE,
              !.g.nbio.image.is_blocking = TRUE,
              !.g.nbio.image.is_finished = TRUE,
              !.g.nbio.is_blocking = TRUE,
              !.g.nbio.is_finished = TRUE], 0)

cb_image_menu_wallpaper_upload(w) ==
    IF w.g.nbio.image.processing_final_state
          \in {IMAGE_PROCESS_ERROR, IMAGE_PROCESS_ERROR_END}
    THEN R(w, -1)
    ELSE R([w EXCEPT
              !.obs.load_background =
                  IF MenuCtxHasLoadBackground THEN Sat(@, MaxCount) ELSE @,
              !.obs.texture_free = Sat(@, MaxCount),
              !.heap.ti_pixels = FALSE,
              !.g.nbio.image.is_blocking_on_processing = FALSE,
              !.g.nbio.image.is_finished_with_processing = TRUE,
              !.g.nbio.image.is_blocking = TRUE,
              !.g.nbio.image.is_finished = TRUE,
              !.g.nbio.is_blocking = TRUE,
              !.g.nbio.is_finished = TRUE], 0)

(* Faulty variant: a parse-done callback that does not look at the chunk
   flags. *)
cb_image_menu_wallpaper_ignores_chunks(w) ==
    LET d == w.heap.rpng
        w0 == [w EXCEPT !.obs.calls.rpng_use_of_freed = @ \/ d.freed]
        r == rpng_nbio_load_image_argb_process(w0)
    IN  IF r.ret \in {IMAGE_PROCESS_ERROR, IMAGE_PROCESS_ERROR_END}
        THEN R(r.w, -1)
        ELSE R([r.w EXCEPT
                  !.g.nbio.image.cb = "cb_image_menu_wallpaper_upload",
                  !.g.nbio.image.is_blocking_on_processing = TRUE,
                  !.g.nbio.image.is_finished_with_processing = FALSE,
                  !.g.nbio.image.is_finished = FALSE], 0)

cb_image_menu_wallpaper(w) ==
    LET d == w.heap.rpng
        w0 == [w EXCEPT !.obs.calls.rpng_use_of_freed = @ \/ d.freed]
    IN  IF ~d.has_ihdr \/ ~d.has_idat \/ ~d.has_iend THEN R(w0, -1)
        ELSE LET r == rpng_nbio_load_image_argb_process(w0)
             IN  IF r.ret \in {IMAGE_PROCESS_ERROR, IMAGE_PROCESS_ERROR_END}
                 THEN R(r.w, -1)
                 ELSE R([r.w EXCEPT
                           !.g.nbio.image.cb = "cb_image_menu_wallpaper_upload",
                           !.g.nbio.image.is_blocking_on_processing = TRUE,
                           !.g.nbio.image.is_finished_with_processing = FALSE,
                           !.g.nbio.image.is_finished = FALSE], 0)

(* The NBIO completion callback that installs the decoder.  calloc overwrites
   image.handle whatever it held; a failed start frees the decoder and leaves
   image.handle pointing at it. *)
cb_nbio_image_menu_wallpaper(w, dc) ==
    LET ok == dc.alloc_ok
        w1 == [w EXCEPT
                 !.g.nbio.image.handle = IF ok THEN PTR ELSE NULL,
                 !.g.nbio.image.cb = "cb_image_menu_wallpaper",
                 !.heap.rpng = NoDecoder,
                 !.heap.lost.rpng =
                     @ \/ (w.g.nbio.image.handle # NULL /\ ~w.heap.rpng.freed)]
        len == w.heap.nbio.len
    IN  IF ~ok THEN R([w1 EXCEPT !.g.nbio.image.cb = NULL], -1)
        ELSE IF ~dc.ptr_ok
        THEN R([w1 EXCEPT !.g.nbio.image.handle = NULL,
                          !.g.nbio.image.cb = NULL], -1)
        ELSE LET w2 == [w1 EXCEPT
                   !.heap.rpng.chunks = dc.chunks,
                   !.heap.rpng.proc_left = dc.proc_left,
                   !.heap.rpng.proc_final = dc.proc_final,
                   !.g.nbio.image.pos_increment =
                       IF len \div 2 # 0 THEN len \div 2 ELSE 1,
                   !.g.nbio.image.processing_pos_increment =
                       IF len \div 4 # 0 THEN len \div 4 ELSE 1]
             IN  IF ~dc.start_ok
                 THEN R(rpng_nbio_load_image_free(
                          [w2 EXCEPT !.heap.rpng = NoDecoder]), -1)
                 ELSE R([w2 EXCEPT
                           !.g.nbio.image.is_blocking = FALSE,
                           !.g.nbio.image.is_finished = FALSE,
                           !.g.nbio.is_blocking = FALSE,
                           !.g.nbio.is_finished = TRUE], 0)

image_cb(w) ==
    CASE w.g.nbio.image.cb = "cb_image_menu_wallpaper" -> cb_image_menu_wallpaper(w)
      [] w.g.nbio.image.cb = "cb_image_menu_wallpaper_upload" ->
             cb_image_menu_wallpaper_upload(w)
      [] OTHER -> R(w, 0)

----------------------------------------------------------------------------
(* Image pipeline *)

(* Faulty variant: an image poll that installs a decoder itself instead of
   routing the path through the NBIO queue. *)
rarch_main_data_image_iterate_poll_installs(w) ==
    LET path == msg_queue_front(w.g.nbio.image.msg_queue)
        w1 == [w EXCEPT !.g.nbio.image.msg_queue = msg_queue_pull(@)]
    IN  IF path = NoMsg THEN R(w1, -1)
        ELSE IF w1.g.nbio.image.handle # NULL THEN R(w1, -1)
        ELSE R([w1 EXCEPT !.g.nbio.image.handle = PTR,
                          !.g.nbio.image.cb = "cb_image_menu_wallpaper",
                          !.heap.rpng = NoDecoder], 0)

rarch_main_data_image_iterate_poll(w) ==
    LET path == msg_queue_front(w.g.nbio.image.msg_queue)
        w1 == [w EXCEPT !.g.nbio.image.msg_queue = msg_queue_pull(@)]
    IN  IF path = NoMsg THEN R(w1, -1)
        ELSE IF w1.g.nbio.image.handle # NULL THEN R(w1, -1)
        ELSE R([w1 EXCEPT !.g.nbio.msg_queue =
                   msg_queue_push(msg_queue_clear(@), path)], 0)

RECURSIVE image_iterate_transfer_loop(_, _)
image_iterate_transfer_loop(w, i) ==
    IF i >= w.g.nbio.image.pos_increment
    THEN R([w EXCEPT !.g.nbio.image.frame_count = Incremented(@)], 0)
    ELSE LET r == rpng_nbio_load_image_argb_iterate(w)
         IN  IF ~r.ret THEN R(r.w, -1)
             ELSE image_iterate_transfer_loop(
                      [r.w EXCEPT !.heap.rpng.chunks = Tail(@)], i + 1)

rarch_main_data_image_iterate_transfer(w) ==
    IF w.g.nbio.image.is_finished THEN R(w, 0)
    ELSE image_iterate_transfer_loop(w, 0)

RECURSIVE image_iterate_process_loop(_, _, _)
image_iterate_process_loop(w, i, retval) ==
    IF i >= w.g.nbio.image.processing_pos_increment THEN R(w, retval)
    ELSE LET r == rpng_nbio_load_image_argb_process(w)
         IN  IF r.ret # IMAGE_PROCESS_NEXT THEN r
             ELSE image_iterate_process_loop(r.w, i + 1, r.ret)

rarch_main_data_image_iterate_process_transfer(w) ==
    LET r  == image_iterate_process_loop(w, 0, IMAGE_PROCESS_NEXT)
        w1 == [r.w EXCEPT !.g.nbio.image.processing_frame_count = Incremented(@)]
    IN  IF r.ret = IMAGE_PROCESS_NEXT THEN R(w1, 0)
        ELSE R([w1 EXCEPT !.g.nbio.image.processing_final_state = r.ret], -1)

(* Faulty variant: a parse_free that releases the decoder and keeps the
   pointer to it. *)
rarch_main_data_image_iterate_parse_free_keeps_handle(w) ==
    LET w1 == rpng_nbio_load_image_free(w)
    IN  R([w1 EXCEPT !.g.nbio.image.frame_count = 0,
                     !.g.nbio.image.processing_frame_count = 0,
                     !.g.nbio.image.msg_queue = msg_queue_clear(@)], 0)

rarch_main_data_image_iterate_parse_free(w) ==
    LET w1 == rpng_nbio_load_image_free(w)
    IN  R([w1 EXCEPT !.heap.rpng = NoDecoder,
                     !.g.nbio.image.handle = NULL,
                     !.g.nbio.image.frame_count = 0,
                     !.g.nbio.image.processing_frame_count = 0,
                     !.g.nbio.image.msg_queue = msg_queue_clear(@)], 0)

rarch_main_data_image_iterate_process_transfer_parse(w) ==
    IF w.g.nbio.image.handle # NULL /\ w.g.nbio.image.cb # NULL
    THEN R(image_cb([w EXCEPT !.obs.calls.image_cb = w.g.nbio.image.cb]).w, 0)
    ELSE R(w, 0)

rarch_main_data_image_iterate_transfer_parse(w) ==
    IF w.g.nbio.image.handle # NULL /\ w.g.nbio.image.cb # NULL
    THEN R(image_cb([w EXCEPT !.obs.calls.image_cb = w.g.nbio.image.cb]).w, 0)
    ELSE R(w, 0)

----------------------------------------------------------------------------
(* NBIO pipeline *)

cb_nbio_default(w) ==
    R([w EXCEPT !.g.nbio.is_blocking = FALSE, !.g.nbio.is_finished = TRUE], 0)

nbio_cb(w, dc) ==
    CASE w.g.nbio.cb = "cb_nbio_default" -> cb_nbio_default(w)
      [] w.g.nbio.cb = "cb_nbio_image_menu_wallpaper" ->
             cb_nbio_image_menu_wallpaper(w, dc)
      [] OTHER -> R(w, 0)

(* elem1 is an uninitialised stack buffer when the split yields one element:
   fc.elem1 is what the read of it finds. *)
rarch_main_data_nbio_iterate_poll(w, fc) ==
    LET path  == msg_queue_front(w.g.nbio.msg_queue)
        w1    == [w EXCEPT !.g.nbio.msg_queue = msg_queue_pull(@)]
        elem1 == IF SplitSize(path) > 1 THEN path.msg2 ELSE fc.elem1
    IN  IF path = NoMsg THEN R(w1, -1)
        ELSE IF w1.g.nbio.handle # NULL THEN R(w1, -1)
        ELSE IF ~fc.split_ok THEN R(w1, -1)
        ELSE IF ~fc.open_ok THEN R(w1, -1)
        ELSE R([w1 EXCEPT
                  !.heap.nbio = [left |-> fc.left, len |-> fc.len],
                  !.obs.load_background = 0,
                  !.obs.texture_free = 0,
                  !.g.nbio.handle = PTR,
                  !.g.nbio.is_blocking = FALSE,
                  !.g.nbio.is_finished = FALSE,
                  !.g.nbio.cb = IF elem1 = "cb_menu_wallpaper"
                                THEN "cb_nbio_image_menu_wallpaper"
                                ELSE "cb_nbio_default"], 0)

RECURSIVE nbio_iterate_transfer_loop(_, _)
nbio_iterate_transfer_loop(w, i) ==
    IF i >= w.g.nbio.pos_increment
    THEN R([w EXCEPT !.g.nbio.frame_count = Incremented(@)], 0)
    ELSE LET r == nbio_iterate(w)
         IN  IF r.ret THEN R(r.w, -1)
             ELSE nbio_iterate_transfer_loop(r.w, i + 1)

rarch_main_data_nbio_iterate_transfer(w) ==
    LET w1 == [w EXCEPT !.g.nbio.pos_increment = NbioPosIncrement]
    IN  IF w1.g.nbio.is_finished THEN R(w1, 0)
        ELSE nbio_iterate_transfer_loop(w1, 0)

(* Faulty variant: a parse_free that leaves frame_count as it is. *)
rarch_main_data_nbio_iterate_parse_free_keeps_count(w) ==
    IF ~w.g.nbio.is_finished THEN R(w, -1)
    ELSE R([w EXCEPT !.heap.nbio = NoReader,
                     !.obs.calls.nbio_free_under_decoder =
                         (w.g.nbio.image.handle # NULL /\ ~w.heap.rpng.freed),
                     !.g.nbio.handle = NULL,
                     !.g.nbio.is_blocking = FALSE,
                     !.g.nbio.is_finished = FALSE,
                     !.g.nbio.msg_queue = msg_queue_clear(@)], 0)

rarch_main_data_nbio_iterate_parse_free(w) ==
    IF ~w.g.nbio.is_finished THEN R(w, -1)
    ELSE R([w EXCEPT !.heap.nbio = NoReader,
                     !.obs.calls.nbio_free_under_decoder =
                         (w.g.nbio.image.handle # NULL /\ ~w.heap.rpng.freed),
                     !.g.nbio.handle = NULL,
                     !.g.nbio.is_blocking = FALSE,
                     !.g.nbio.is_finished = FALSE,
                     !.g.nbio.frame_count = 0,
                     !.g.nbio.msg_queue = msg_queue_clear(@)], 0)

rarch_main_data_nbio_iterate_parse(w, dc) ==
    IF w.g.nbio.cb # NULL
    THEN R(nbio_cb([w EXCEPT !.obs.calls.nbio_cb = TRUE], dc).w, 0)
    ELSE R(w, 0)

(* The first half of rarch_main_data_nbio_iterate: the reader. *)
nbio_iterate_reader(w, fc, dc) ==
    IF w.g.nbio.handle # NULL
    THEN IF ~w.g.nbio.is_blocking
         THEN LET r == rarch_main_data_nbio_iterate_transfer(w)
              IN  IF r.ret = -1 THEN rarch_main_data_nbio_iterate_parse(r.w, dc).w
                  ELSE r.w
         ELSE IF w.g.nbio.is_finished
              THEN rarch_main_data_nbio_iterate_parse_free(w).w
              ELSE w
    ELSE rarch_main_data_nbio_iterate_poll(w, fc).w

(* The second half: the image sub-state. *)
nbio_iterate_image(w) ==
    IF w.g.nbio.image.handle # NULL
    THEN IF w.g.nbio.image.is_blocking_on_processing
         THEN LET r == rarch_main_data_image_iterate_process_transfer(w)
              IN  IF r.ret = -1
                  THEN rarch_main_data_image_iterate_process_transfer_parse(r.w).w
                  ELSE r.w
         ELSE IF ~w.g.nbio.image.is_blocking
         THEN LET r == rarch_main_data_image_iterate_transfer(w)
              IN  IF r.ret = -1
                  THEN rarch_main_data_image_iterate_transfer_parse(r.w).w
                  ELSE r.w
         ELSE IF w.g.nbio.image.is_finished
              THEN rarch_main_data_image_iterate_parse_free(w).w
              ELSE w
    ELSE rarch_main_data_image_iterate_poll(w).w

(* A read through image.handle after the decoder was freed finds uc. *)
DecoderIsDangling(w) == w.g.nbio.image.handle # NULL /\ w.heap.rpng.freed

ReadFreedDecoder(w, uc) ==
    IF DecoderIsDangling(w) THEN [w EXCEPT !.heap.rpng = uc] ELSE w

rarch_main_data_nbio_iterate(w, fc, dc, uc) ==
    nbio_iterate_image(ReadFreedDecoder(nbio_iterate_reader(w, fc, dc), uc))

----------------------------------------------------------------------------
(* HTTP transport adapter and pipeline *)

ConnChoiceNone == [ split_ok |-> TRUE, conn_ok |-> TRUE, left |-> 0, done |-> TRUE ]
ConnOpens ==
    { [ConnChoiceNone EXCEPT !.left = n, !.done = d] :
        n \in 0..MaxConnLeft, d \in BOOLEAN }
ConnChoices ==
    ConnOpens \cup { [ConnChoiceNone EXCEPT !.split_ok = FALSE],
                     [ConnChoiceNone EXCEPT !.conn_ok = FALSE] }

XferChoiceNone == [ new_ok |-> TRUE, left |-> 0, has_data |-> TRUE ]
XferOpens ==
    { [XferChoiceNone EXCEPT !.left = n, !.has_data = d] :
        n \in 0..MaxXferLeft, d \in BOOLEAN }
XferChoices == XferOpens \cup { [XferChoiceNone EXCEPT !.new_ok = FALSE] }

(* net_http_connection_iterate: TRUE when the connection is complete. *)
net_http_connection_iterate(w) ==
    IF w.heap.conn.left = 0 THEN R(w, TRUE)
    ELSE R([w EXCEPT !.heap.conn.left = @ - 1], FALSE)

(* net_http_update: TRUE when the transfer is complete. *)
net_http_update(w) ==
    IF w.heap.http.left = 0 THEN R(w, TRUE)
    ELSE R([w EXCEPT !.heap.http.left = @ - 1], FALSE)

rarch_main_data_http_iterate_transfer(w) ==
    LET r == net_http_update(w) IN IF ~r.ret THEN R(r.w, -1) ELSE R(r.w, 0)

rarch_main_data_http_con_iterate_transfer(w) ==
    LET r == net_http_connection_iterate(w) IN IF ~r.ret THEN R(r.w, -1) ELSE R(r.w, 0)

cb_http_conn_default(w, tc) ==
    LET ok == tc.new_ok
        w1 == [w EXCEPT !.heap.lost.http = @ \/ w.g.http.handle # NULL]
    IN  IF ~ok THEN R([w1 EXCEPT !.g.http.handle = NULL, !.heap.http = NoXfer], -1)
        ELSE R([w1 EXCEPT
                  !.heap.http = [left |-> tc.left, has_data |-> tc.has_data],
                  !.g.http.handle = PTR,
                  !.g.http.cb =
                      IF w.g.http.connection.elem1 = "cb_core_updater_list"
                      THEN "cb_core_updater_list"
                      ELSE IF w.g.http.connection.elem1 = "cb_core_updater_download"
                      THEN "cb_core_updater_download"
                      ELSE NULL], 0)

rarch_main_data_http_conn_iterate_transfer_parse(w, tc) ==
    LET w1 == IF w.heap.conn.done
                 /\ w.g.http.connection.handle # NULL
                 /\ w.g.http.connection.cb # NULL
              THEN cb_http_conn_default(w, tc).w
              ELSE w
    IN  R([w1 EXCEPT !.heap.conn = NoConn,
                     !.g.http.connection.handle = NULL], 0)

(* Faulty variant: a transfer_parse that deletes the transfer and keeps the
   pointer to it. *)
rarch_main_data_http_iterate_transfer_parse_keeps_handle(w) ==
    LET w1 == IF w.heap.http.has_data /\ w.g.http.cb # NULL
              THEN [w EXCEPT !.obs.http_cb = Sat(@, MaxCount),
                             !.obs.http_cb_name = w.g.http.cb]
              ELSE w
    IN  R([w1 EXCEPT !.g.http.msg_queue = msg_queue_clear(@)], 0)

rarch_main_data_http_iterate_transfer_parse(w) ==
    LET w1 == IF w.heap.http.has_data /\ w.g.http.cb # NULL
              THEN [w EXCEPT !.obs.http_cb = Sat(@, MaxCount),
                             !.obs.http_cb_name = w.g.http.cb]
              ELSE w
    IN  R([w1 EXCEPT !.heap.http = NoXfer,
                     !.g.http.handle = NULL,
                     !.g.http.msg_queue = msg_queue_clear(@)], 0)

(* net_http_connection_new overwrites connection.handle whatever it held. *)
rarch_main_data_http_iterate_poll(w, hc) ==
    LET url == msg_queue_front(w.g.http.msg_queue)
        w1  == [w EXCEPT !.g.http.msg_queue = msg_queue_pull(@)]
        w2  == [w1 EXCEPT !.heap.lost.conn = @ \/ w.g.http.connection.handle # NULL]
    IN  IF url = NoMsg THEN R(w1, -1)
        ELSE IF w1.g.http.handle # NULL THEN R(w1, -1)
        ELSE IF ~hc.split_ok THEN R(w1, -1)
        ELSE IF ~hc.conn_ok
        THEN R([w2 EXCEPT !.g.http.connection.handle = NULL,
                          !.heap.conn = NoConn], -1)
        ELSE R([w2 EXCEPT
                  !.heap.conn = [left |-> hc.left, done |-> hc.done],
                  !.obs.http_cb = 0,
                  !.obs.http_cb_name = NULL,
                  !.obs.http_token = url.msg2,
                  !.g.http.connection.handle = PTR,
                  !.g.http.connection.cb = "cb_http_conn_default",
                  !.g.http.connection.elem1 =
                      IF SplitSize(url) > 1 THEN url.msg2 ELSE @], 0)

rarch_main_data_http_iterate(w, hc, tc) ==
    LET w1 == IF w.g.http.connection.handle # NULL
              THEN LET r == rarch_main_data_http_con_iterate_transfer(w)
                   IN  IF r.ret = 0
                       THEN rarch_main_data_http_conn_iterate_transfer_parse(r.w, tc).w
                       ELSE r.w
              ELSE w
    IN  IF w1.g.http.handle # NULL
        THEN LET r == rarch_main_data_http_iterate_transfer(w1)
             IN  IF r.ret = 0
                 THEN rarch_main_data_http_iterate_transfer_parse(r.w).w
                 ELSE r.w
        ELSE rarch_main_data_http_iterate_poll(w1, hc).w

----------------------------------------------------------------------------
(* One tick: overlay -> NBIO -> HTTP -> DB (overlay and DB are peers outside
   this file's state). *)

data_runloop_iterate(w, fc, dc, uc, hc, tc) ==
    rarch_main_data_http_iterate(
        rarch_main_data_nbio_iterate(
            [w EXCEPT !.obs.calls = obs_empty.calls,
                      !.heap.lost = heap_empty.lost], fc, dc, uc), hc, tc)

----------------------------------------------------------------------------
(* The program's state as a world, and the draws a tick can use *)

W == [g |-> g_data_runloop, heap |-> heap, obs |-> obs]

SetW(w) == g_data_runloop' = w.g /\ heap' = w.heap /\ obs' = w.obs

FileDraws(w, S) ==
    IF w.g.nbio.handle = NULL /\ msg_queue_front(w.g.nbio.msg_queue) # NoMsg
    THEN { fc \in S : SplitSize(msg_queue_front(w.g.nbio.msg_queue)) < 2
                      \/ fc.elem1 = "" }
    ELSE {FileChoiceNone}

DecoderDraws(w, S) ==
    IF w.g.nbio.handle # NULL /\ ~w.g.nbio.is_blocking /\ ~w.g.nbio.is_finished
       /\ w.g.nbio.cb = "cb_nbio_image_menu_wallpaper"
    THEN S ELSE {DecoderChoiceNone}

FreedDraws(w) == IF DecoderIsDangling(w) THEN FreedDecoderStates ELSE {NoDecoder}

ConnDraws(w, S) ==
    IF msg_queue_front(w.g.http.msg_queue) # NoMsg THEN S ELSE {ConnChoiceNone}

XferDraws(w, S) ==
    IF w.g.http.connection.handle # NULL /\ w.heap.conn.left = 0 /\ w.heap.conn.done
    THEN S ELSE {XferChoiceNone}

(* One tick with the adapters answering from the given sets. *)
TickWith(FS, DS, CS, XS) ==
    \E fc \in FileDraws(W, FS), dc \in DecoderDraws(W, DS),
       hc \in ConnDraws(W, CS), tc \in XferDraws(W, XS) :
        \E uc \in FreedDraws(nbio_iterate_reader(W, fc, dc)) :
            SetW(data_runloop_iterate(W, fc, dc, uc, hc, tc))

Tick == TickWith(FileChoices, DecoderChoices, ConnChoices, XferChoices)

----------------------------------------------------------------------------
(* Foreground API *)

NoPush == [type |-> DATA_TYPE_NONE, m |-> NoMsg, flush |-> FALSE]

WorkerRunning == wpc \in {"start", "lock", "iterate", "unlock"}

QueueOf(g, type) ==
    CASE type = DATA_TYPE_FILE -> g.nbio.msg_queue
      [] type = DATA_TYPE_IMAGE -> g.nbio.image.msg_queue
      [] type = DATA_TYPE_HTTP -> g.http.msg_queue
      [] OTHER -> NoQueue

WithQueue(g, type, q) ==
    CASE type = DATA_TYPE_FILE -> [g EXCEPT !.nbio.msg_queue = q]
      [] type = DATA_TYPE_IMAGE -> [g EXCEPT !.nbio.image.msg_queue = q]
      [] type = DATA_TYPE_HTTP -> [g EXCEPT !.http.msg_queue = q]
      [] OTHER -> g

(* rarch_main_data_msg_queue_push, run to completion (no worker thread). *)
msg_queue_push_result(g, type, msg, msg2, flush) ==
    LET queue == QueueOf(g, type)
    IN  IF ~queue.alloc THEN g
        ELSE WithQueue(g, type,
                 msg_queue_push(IF flush THEN msg_queue_clear(queue) ELSE queue,
                                Msg(msg, msg2)))

rarch_main_data_msg_queue_push(type, msg, msg2, flush) ==
    /\ fpc = "idle" /\ ~WorkerRunning
    /\ flush \/ Len(QueueOf(g_data_runloop, type).msgs) < MaxQueue
    /\ g_data_runloop' = msg_queue_push_result(g_data_runloop, type, msg, msg2, flush)
    /\ UNCHANGED <<heap, obs, threaded_data_runloop_enable, fpc, wpc, pushing, frame>>

(* The same push beside a running worker: it takes no lock, so the worker's
   tick can run between the clear and the append. *)
msg_queue_push_select(type, msg, msg2, flush) ==
    /\ fpc = "idle" /\ WorkerRunning
    /\ flush \/ Len(QueueOf(g_data_runloop, type).msgs) < MaxQueue
    /\ LET queue == QueueOf(g_data_runloop, type)
       IN  IF ~queue.alloc THEN UNCHANGED <<g_data_runloop, fpc, pushing>>
           ELSE /\ g_data_runloop' =
                     IF flush
                     THEN WithQueue(g_data_runloop, type, msg_queue_clear(queue))
                     ELSE g_data_runloop
                /\ fpc' = "push"
                /\ pushing' = [type |-> type, m |-> Msg(msg, msg2), flush |-> flush]
    /\ UNCHANGED <<heap, obs, threaded_data_runloop_enable, wpc, frame>>

msg_queue_push_append ==
    /\ fpc = "push"
    /\ g_data_runloop' =
           WithQueue(g_data_runloop, pushing.type,
               msg_queue_push(QueueOf(g_data_runloop, pushing.type), pushing.m))
    /\ fpc' = "idle" /\ pushing' = NoPush
    /\ UNCHANGED <<heap, obs, threaded_data_runloop_enable, wpc, frame>>

rarch_main_data_init_queues ==
    /\ fpc = "idle"
    /\ g_data_runloop' =
         [g_data_runloop EXCEPT
            !.http.msg_queue = IF @.alloc THEN @ ELSE msg_queue_new,
            !.nbio.msg_queue = IF @.alloc THEN @ ELSE msg_queue_new,
            !.nbio.image.msg_queue = IF @.alloc THEN @ ELSE msg_queue_new]
    /\ UNCHANGED <<heap, obs, threaded_data_runloop_enable, fpc, wpc, pushing, frame>>

(* rarch_main_data_iterate returns at once when the worker drives the ticks;
   T is the tick with the answers the adapters may give. *)
rarch_main_data_iterate_by(T) ==
    /\ fpc = "idle"
    /\ ~g_data_runloop.thread_inited
    /\ T
    /\ frame' = 1 - frame
    /\ UNCHANGED <<threaded_data_runloop_enable, fpc, wpc, pushing>>

rarch_main_data_iterate == rarch_main_data_iterate_by(Tick)

----------------------------------------------------------------------------
(* rarch_main_data_clear_state: deinit, then init.  fpc is "join" while deinit
   waits in sthread_join, "init" when deinit has returned and init has not
   started, "init_locks" when init has spawned the worker and not yet created
   the locks. *)

(* Faulty variant: a deinit that waits for the worker without telling it to
   quit. *)
deinit_begin_without_quit(g) ==
    IF ~g.inited THEN g
    ELSE IF g.thread_inited THEN g
    ELSE [g EXCEPT !.inited = FALSE]

(* rarch_main_data_deinit up to sthread_join (all of it without a worker). *)
deinit_begin(g) ==
    IF ~g.inited THEN g
    ELSE IF g.thread_inited THEN [g EXCEPT !.thread_quit = TRUE]
    ELSE [g EXCEPT !.inited = FALSE]

(* rarch_main_data_deinit from sthread_join on: slock_free and scond_free leave
   the pointers as they are. *)
deinit_end(g) ==
    [g EXCEPT !.lock = "freed", !.cond_lock = "freed", !.cond = "freed",
              !.inited = FALSE]

rarch_main_data_clear_state ==
    /\ fpc = "idle"
    /\ g_data_runloop' = deinit_begin(g_data_runloop)
    /\ fpc' = IF g_data_runloop.inited /\ g_data_runloop.thread_inited
              THEN "join" ELSE "init"
    /\ UNCHANGED <<heap, obs, threaded_data_runloop_enable, wpc, pushing, frame>>

rarch_main_data_deinit_join ==
    /\ fpc = "join"
    /\ wpc = "exit"
    /\ wpc' = "none"
    /\ g_data_runloop' = deinit_end(g_data_runloop)
    /\ fpc' = "init"
    /\ UNCHANGED <<heap, obs, threaded_data_runloop_enable, pushing, frame>>

(* Faulty variant: an init without the memset. *)
init_begin_without_memset(g, threaded, created) ==
    IF g.inited THEN g
    ELSE IF threaded /\ created THEN [g EXCEPT !.thread = PTR]
    ELSE [g EXCEPT !.inited = TRUE]

(* rarch_main_data_init up to sthread_create (all of it without a worker). *)
init_begin(g, threaded, created) ==
    IF g.inited THEN g
    ELSE IF threaded /\ created THEN [data_runloop_zero EXCEPT !.thread = PTR]
    ELSE [data_runloop_zero EXCEPT !.inited = TRUE]

(* What the memset of init does to the objects the zeroed pointers held (the
   texture image.ti is part of the zeroed structure).  The observations are
   counted per instance: they restart with the memset. *)
init_heap(g, h) ==
    IF g.inited THEN h
    ELSE [h EXCEPT
            !.lost.nbio = g.nbio.handle # NULL,
            !.lost.rpng = g.nbio.image.handle # NULL /\ ~h.rpng.freed,
            !.lost.conn = g.http.connection.handle # NULL,
            !.lost.http = g.http.handle # NULL,
            !.nbio = NoReader, !.rpng = NoDecoder,
            !.conn = NoConn, !.http = NoXfer, !.ti_pixels = FALSE]

(* rarch_main_data_init after sthread_create returned a thread. *)
init_end(g) ==
    [g EXCEPT !.lock = "unlocked", !.cond_lock = "unlocked", !.cond = PTR,
              !.thread_inited = (g.thread # NULL), !.inited = TRUE]

rarch_main_data_init ==
    /\ fpc = "init"
    /\ \E created \in (IF threaded_data_runloop_enable THEN BOOLEAN ELSE {FALSE}) :
         LET spawned == ~g_data_runloop.inited
                        /\ threaded_data_runloop_enable /\ created
         IN  /\ g_data_runloop' =
                    init_begin(g_data_runloop, threaded_data_runloop_enable, created)
             /\ wpc' = IF spawned THEN "start" ELSE wpc
             /\ fpc' = IF spawned THEN "init_locks" ELSE "idle"
    /\ heap' = init_heap(g_data_runloop, heap)
    /\ obs' = IF g_data_runloop.inited THEN obs ELSE obs_empty
    /\ UNCHANGED <<threaded_data_runloop_enable, pushing, frame>>

rarch_main_data_init_locks ==
    /\ fpc = "init_locks"
    /\ g_data_runloop' = init_end(g_data_runloop)
    /\ fpc' = "idle"
    /\ UNCHANGED <<heap, obs, threaded_data_runloop_enable, wpc, pushing, frame>>

----------------------------------------------------------------------------
(* data_thread_loop: while (!thread_quit) { lock; iterate; unlock } *)

data_thread_loop_test ==
    /\ wpc = "start"
    /\ wpc' = IF g_data_runloop.thread_quit THEN "exit" ELSE "lock"
    /\ UNCHANGED <<g_data_runloop, heap, obs, threaded_data_runloop_enable, fpc, pushing, frame>>

(* slock_lock(runloop->lock): a NULL lock is dereferenced, which ends the
   process (both threads). *)
data_thread_loop_lock ==
    /\ wpc = "lock"
    /\ g_data_runloop.lock \in {NULL, "unlocked"}
    /\ IF g_data_runloop.lock = NULL
       THEN wpc' = "crash" /\ fpc' = "crash" /\ UNCHANGED g_data_runloop
       ELSE wpc' = "iterate" /\ UNCHANGED fpc
            /\ g_data_runloop' = [g_data_runloop EXCEPT !.lock = "worker"]
    /\ UNCHANGED <<heap, obs, threaded_data_runloop_enable, pushing, frame>>

data_thread_loop_iterate_by(T) ==
    /\ wpc = "iterate"
    /\ T
    /\ wpc' = "unlock"
    /\ UNCHANGED <<threaded_data_runloop_enable, fpc, pushing, frame>>

data_thread_loop_iterate == data_thread_loop_iterate_by(Tick)

data_thread_loop_unlock ==
    /\ wpc = "unlock"
    /\ g_data_runloop' = [g_data_runloop EXCEPT !.lock = "unlocked"]
    /\ wpc' = "start"
    /\ UNCHANGED <<heap, obs, threaded_data_runloop_enable, fpc, pushing, frame>>

----------------------------------------------------------------------------
(* Specifications *)

Paths == {"a"}
FileTokens == {"", "cb_menu_wallpaper"}
ImageTokens == {"cb_menu_wallpaper"}
HttpTokens == {"", "cb_core_updater_list", "cb_core_updater_download"}

TokensOf(type) ==
    CASE type = DATA_TYPE_FILE -> FileTokens
      [] type = DATA_TYPE_IMAGE -> ImageTokens
      [] type = DATA_TYPE_HTTP -> HttpTokens
      [] OTHER -> {""}

InitWith(threaded) ==
    /\ g_data_runloop = data_runloop_zero
    /\ heap = heap_empty
    /\ obs = obs_empty
    /\ threaded_data_runloop_enable = threaded
    /\ fpc = "idle"
    /\ wpc = "none"
    /\ pushing = NoPush
    /\ frame = 0

(* The inline runloop: threaded_data_runloop_enable is off; files and images. *)
Init == InitWith(FALSE)

Next ==
    \/ \E type \in {DATA_TYPE_FILE, DATA_TYPE_IMAGE}, msg \in Paths,
          msg2 \in FileTokens, flush \in BOOLEAN :
           msg2 \in TokensOf(type)
           /\ rarch_main_data_msg_queue_push(type, msg, msg2, flush)
    \/ rarch_main_data_init_queues
    \/ rarch_main_data_iterate
    \/ rarch_main_data_clear_state
    \/ rarch_main_data_init

Spec == Init /\ [][Next]_vars


(* The state after clear_state() and init_queues() with threading off. *)
data_runloop_ready ==
    [data_runloop_zero EXCEPT
       !.inited = TRUE,
       !.http.msg_queue = msg_queue_new,
       !.nbio.msg_queue = msg_queue_new,
       !.nbio.image.msg_queue = msg_queue_new]

InitReady ==
    /\ g_data_runloop = data_runloop_ready
    /\ heap = heap_empty
    /\ obs = obs_empty
    /\ threaded_data_runloop_enable = FALSE
    /\ fpc = "idle"
    /\ wpc = "none"
    /\ pushing = NoPush
    /\ frame = 0

(* The frontend calls rarch_main_data_iterate once per frame and a tick
   always returns: whenever the inline tick can run, a frame runs it.  (The
   step is named by what it does to frame; only the inline tick does that.) *)
FrameRuns ==
    fpc = "idle" /\ ~g_data_runloop.thread_inited /\ frame' = 1 - frame

(* File and image loads whose reader opens and whose decoder starts, under a
   frontend that keeps calling iterate once per frame. *)
FileOpensClean == { fc \in FileOpens : fc.elem1 = "" }

LoadTick == TickWith(FileOpensClean, DecoderStarts, {ConnChoiceNone}, {XferChoiceNone})

LoadIterate == rarch_main_data_iterate_by(LoadTick)

LoadNext ==
    \/ \E flush \in BOOLEAN :
           \/ rarch_main_data_msg_queue_push(DATA_TYPE_FILE, "a", "", flush)
           \/ rarch_main_data_msg_queue_push(DATA_TYPE_IMAGE, "a", "cb_menu_wallpaper", flush)
    \/ LoadIterate

LoadSpec == InitReady /\ [][LoadNext]_vars /\ WF_frame(FrameRuns)

(* HTTP requests only. *)
HttpTick == TickWith({FileChoiceNone}, {DecoderChoiceNone}, ConnChoices, XferChoices)

HttpIterate == rarch_main_data_iterate_by(HttpTick)

HttpNext ==
    \/ \E msg2 \in HttpTokens, flush \in BOOLEAN :
           rarch_main_data_msg_queue_push(DATA_TYPE_HTTP, "a", msg2, flush)
    \/ HttpIterate

HttpSpec == InitReady /\ [][HttpNext]_vars /\ WF_frame(FrameRuns)

(* HTTP requests made one at a time (the next one is pushed when the pipeline
   is idle), whose connection completes and whose transfer delivers a body. *)
ConnCompletes == { [ConnChoiceNone EXCEPT !.left = n] : n \in 0..(2 * MaxConnLeft) }

XferDelivers == { [XferChoiceNone EXCEPT !.left = n] : n \in 0..(2 * MaxXferLeft) }

HttpOneTick == TickWith({FileChoiceNone}, {DecoderChoiceNone}, ConnCompletes, XferDelivers)

HttpOneIterate == rarch_main_data_iterate_by(HttpOneTick)

HttpIdle ==
    /\ g_data_runloop.http.handle = NULL
    /\ g_data_runloop.http.connection.handle = NULL
    /\ g_data_runloop.http.msg_queue.msgs = <<>>

HttpOnePush ==
    \E msg2 \in HttpTokens, flush \in BOOLEAN :
        HttpIdle /\ rarch_main_data_msg_queue_push(DATA_TYPE_HTTP, "a", msg2, flush)

HttpOneNext == HttpOnePush \/ HttpOneIterate

HttpOneSpec == InitReady /\ [][HttpOneNext]_vars /\ WF_frame(FrameRuns)

(* One image request with the wallpaper callback, a file that opens and a PNG
   that parses and processes without error. *)
GoodDecoderStarts ==
    { dc \in DecoderStarts : dc.chunks = PngGood /\ dc.proc_final = IMAGE_PROCESS_END }

GoodFileOpens ==
    { [FileChoiceNone EXCEPT !.left = n, !.len = l] :
        n \in 0..(2 * MaxReadLeft), l \in {1, 4, 6, 8} }

GoodTick == TickWith(GoodFileOpens, GoodDecoderStarts, {ConnChoiceNone}, {XferChoiceNone})

GoodIterate == rarch_main_data_iterate_by(GoodTick)

ImageRequest == Msg("a", "cb_menu_wallpaper")

InitImage ==
    /\ g_data_runloop =
         [data_runloop_ready EXCEPT
            !.nbio.image.msg_queue = msg_queue_push(@, ImageRequest)]
    /\ heap = heap_empty
    /\ obs = obs_empty
    /\ threaded_data_runloop_enable = FALSE
    /\ fpc = "idle"
    /\ wpc = "none"
    /\ pushing = NoPush
    /\ frame = 0

ImageSpec == InitImage /\ [][GoodIterate]_vars /\ WF_frame(FrameRuns)

(* The threaded runloop: threaded_data_runloop_enable is on.  Files are read;
   the decoder's allocation is refused (no decode starts). *)
ThreadTick ==
    TickWith(FileOpensClean \cup {[FileChoiceNone EXCEPT !.open_ok = FALSE]},
             {[DecoderChoiceNone EXCEPT !.alloc_ok = FALSE]},
             {ConnChoiceNone}, {XferChoiceNone})

ThreadIterate == rarch_main_data_iterate_by(ThreadTick)

WorkerIterate == data_thread_loop_iterate_by(ThreadTick)

ThreadInit == InitWith(TRUE)

ThreadNext ==
    \/ \E type \in {DATA_TYPE_FILE, DATA_TYPE_IMAGE}, flush \in BOOLEAN :
           LET msg2 == IF type = DATA_TYPE_FILE THEN "" ELSE "cb_menu_wallpaper"
           IN  \/ rarch_main_data_msg_queue_push(type, "a", msg2, flush)
               \/ msg_queue_push_select(type, "a", msg2, flush)
    \/ msg_queue_push_append
    \/ rarch_main_data_init_queues
    \/ ThreadIterate
    \/ rarch_main_data_clear_state
    \/ rarch_main_data_deinit_join
    \/ rarch_main_data_init
    \/ rarch_main_data_init_locks
    \/ data_thread_loop_test
    \/ data_thread_loop_lock
    \/ WorkerIterate
    \/ data_thread_loop_unlock

(* The worker's tick returns: the step from "iterate" to "unlock", which only
   WorkerIterate takes. *)
WorkerTickReturns == wpc = "iterate" /\ wpc' = "unlock"

(* The scheduler runs the worker thread, and sthread_join returns once the
   worker has left its loop. *)
ThreadSpec ==
    /\ ThreadInit /\ [][ThreadNext]_vars
    /\ WF_vars(data_thread_loop_test) /\ WF_vars(data_thread_loop_lock)
    /\ WF_wpc(WorkerTickReturns) /\ WF_vars(data_thread_loop_unlock)
    /\ WF_vars(rarch_main_data_deinit_join)

----------------------------------------------------------------------------
(* Claims *)

nbio == g_data_runloop.nbio
image == g_data_runloop.nbio.image
http == g_data_runloop.http

(* C1: a file load bound to the default NBIO callback always eventually
   returns the NBIO pipeline to idle (the reader is released) under repeated
   ticks.  Stated as the claim has it; the code does not satisfy it. *)
C1_DefaultLoadReturnsToIdle ==
    (nbio.handle # NULL /\ nbio.cb = "cb_nbio_default") ~> (nbio.handle = NULL)

(* C2: while a connection is in flight and its iterator still reports "not
   yet complete", no step consumes a queued HTTP request or replaces the
   connection.  Stated as the claim has it; the code does not satisfy it. *)
C2_HttpOneInFlight ==
    [][ (http.connection.handle # NULL /\ heap.conn.left > 0)
        => /\ Len(g_data_runloop'.http.msg_queue.msgs) >= Len(http.msg_queue.msgs)
           /\ ~heap'.lost.conn ]_vars

(* C3: in every reachable state the image sub-state never has is_blocking and
   is_blocking_on_processing both true. *)
C3_ImageBlockingExclusive ==
    ~(image.is_blocking /\ image.is_blocking_on_processing)

C3_Witness ==
    /\ image.handle # NULL
    /\ image.is_blocking /\ image.is_finished_with_processing
    /\ obs.load_background = 1

(* C4: when the process call made at parse-done returns ERROR, load_background
   is never called for the request, texture_free is still called and all the
   finished flags end true.  Stated as the claim has it; the code does not
   satisfy it. *)
ParseDoneProcessError ==
    /\ image.handle # NULL /\ ~heap.rpng.freed
    /\ image.cb = "cb_image_menu_wallpaper"
    /\ ~image.is_blocking_on_processing
    /\ obs.calls.rpng_process = 1
    /\ heap.rpng.proc_left = 0
    /\ heap.rpng.proc_final = IMAGE_PROCESS_ERROR

C4_FirstProcessErrorTearsDown ==
    /\ [](ParseDoneProcessError => obs.load_background = 0)
    /\ ParseDoneProcessError ~>
           ( /\ obs.texture_free >= 1
             /\ image.is_finished /\ image.is_finished_with_processing
             /\ nbio.is_finished )

(* C5: when deinit has returned on an initialised runloop (the step of
   clear_state that runs it), inited is false and no reader, decoder,
   connection or transfer is still held.  Stated as the claim has it; the code
   does not satisfy it. *)
C5_DeinitReleasesHandles ==
    [][ (g_data_runloop.inited /\ fpc = "idle" /\ fpc' = "init")
        => /\ ~g_data_runloop'.inited
           /\ g_data_runloop'.nbio.handle = NULL
           /\ g_data_runloop'.nbio.image.handle = NULL
           /\ g_data_runloop'.http.connection.handle = NULL
           /\ g_data_runloop'.http.handle = NULL ]_vars

(* C6: a foreground push (between its queue clear and its append) never runs
   while the worker is inside its tick.  Stated as the claim has it; the code
   does not satisfy it. *)
C6_PushNotConcurrentWithTick == ~(fpc = "push" /\ wpc = "iterate")

(* C7: in threaded mode deinit terminates: once it waits in sthread_join the
   worker starts no further tick after seeing thread_quit, leaves its loop and
   is joined. *)
C7_DeinitTerminates ==
    /\ (fpc = "join") ~> (fpc = "init")
    /\ [][ (g_data_runloop.thread_quit /\ wpc = "start") => wpc' \in {"start", "exit"} ]_vars

C7_Witness ==
    /\ fpc = "init" /\ wpc = "none"
    /\ g_data_runloop.thread_quit /\ ~g_data_runloop.inited
    /\ g_data_runloop.lock = "freed"

(* C8: when a push with flush = true returns, the selected queue holds at most
   one request.  Stated as the claim has it; beside a running worker the code
   does not satisfy it. *)
C8_FlushLeavesAtMostOne ==
    [][ (fpc = "push" /\ fpc' = "idle" /\ pushing.flush)
        => Len(QueueOf(g_data_runloop', pushing.type).msgs) <= 1 ]_vars

(* C9: at every tick boundary image.handle is non-empty only if nbio.handle is;
   image.handle becomes non-empty only in a step in which the NBIO completion
   callback ran on a live reader. *)
C9_DecoderOnlyOnLiveReader ==
    /\ [](image.handle # NULL => nbio.handle # NULL)
    /\ [][ (image.handle = NULL /\ g_data_runloop'.nbio.image.handle # NULL)
           => /\ nbio.handle # NULL
              /\ nbio.cb = "cb_nbio_image_menu_wallpaper"
              /\ g_data_runloop'.nbio.handle # NULL
              /\ obs'.calls.nbio_cb ]_vars

C9_Witness ==
    image.handle # NULL /\ nbio.handle # NULL /\ nbio.is_finished /\ ~heap.rpng.freed

(* C10: one image request with the wallpaper callback, a file that opens and a
   PNG that parses and processes without error: repeated ticks eventually call
   load_background, exactly once, and release the decoder and the reader; the
   process phase starts only when IHDR, IDAT and IEND have been parsed. *)
ImageLoadDone ==
    /\ obs.load_background = 1
    /\ image.handle = NULL /\ nbio.handle = NULL
    /\ nbio.msg_queue.msgs = <<>> /\ image.msg_queue.msgs = <<>>

C10_ImageLoadCompletes ==
    /\ <>[]ImageLoadDone
    /\ [](obs.load_background <= 1)
    /\ [](image.is_blocking_on_processing =>
             heap.rpng.has_ihdr /\ heap.rpng.has_idat /\ heap.rpng.has_iend)

C10_Witness == ImageLoadDone /\ obs.texture_free = 1

(* C11: a single HTTP request whose token names cb_core_updater_list or
   cb_core_updater_download, whose connection and body transfer complete: the
   named callback is invoked exactly once, and afterwards the transfer is
   deleted, the connection is released and the HTTP queue is empty. *)
HttpServedBy(cb) ==
    /\ obs.http_cb = 1 /\ obs.http_cb_name = cb /\ obs.http_token = cb
    /\ http.handle = NULL /\ http.connection.handle = NULL
    /\ heap.http = NoXfer /\ heap.conn = NoConn
    /\ http.msg_queue.msgs = <<>>

HttpQueued(token) == msg_queue_front(http.msg_queue) = Msg("a", token)

C11_HttpRequestServedOnce ==
    /\ HttpQueued("cb_core_updater_list") ~> HttpServedBy("cb_core_updater_list")
    /\ HttpQueued("cb_core_updater_download") ~> HttpServedBy("cb_core_updater_download")
    /\ [](obs.http_cb <= 1)
    /\ [](~heap.lost.http /\ ~heap.lost.conn)

C11_Witness == HttpServedBy("cb_core_updater_download")

(* C12: the reader outlives the decoder that borrows its buffer: at no
   point, also inside a tick, is the reader released while image.handle still
   holds a decoder.  Stated as the claim has it; the code does not satisfy
   it. *)
C12_ReaderOutlivesDecoder == ~obs.calls.nbio_free_under_decoder

(* C13: when a process-phase step returns ERROR or ERROR_END the result is
   recorded in processing_final_state, load_background is not called, and
   under repeated ticks the decoder and the reader are released.  Stated as
   the claim has it; the code does not satisfy it. *)
ProcessPhaseError ==
    /\ image.handle # NULL /\ ~heap.rpng.freed
    /\ image.is_blocking_on_processing
    /\ image.cb = "cb_image_menu_wallpaper_upload"
    /\ image.processing_final_state \in {IMAGE_PROCESS_ERROR, IMAGE_PROCESS_ERROR_END}

C13_ProcessErrorTearsDown ==
    /\ [](ProcessPhaseError => obs.load_background = 0)
    /\ ProcessPhaseError ~> (image.handle = NULL /\ nbio.handle = NULL)

(* C14: clear_state from any reachable state (handles in flight, requests
   queued, flags set) leaves the runloop in the state init leaves a fresh
   instance in, so the same pushes and ticks are answered the same way: when
   clear_state returns, g_data_runloop, the objects behind its handles and the
   observations equal those of init run on the initial state. *)
C14_ClearStateAsFreshInit ==
    [][ (fpc = "init" /\ fpc' = "idle")
        => /\ g_data_runloop' =
                  init_begin(data_runloop_zero, threaded_data_runloop_enable, FALSE)
           /\ [heap' EXCEPT !.lost = heap_empty.lost] =
                  init_heap(data_runloop_zero, heap_empty)
           /\ obs' = obs_empty ]_vars

C14_Witness ==
    /\ fpc = "idle" /\ g_data_runloop.inited
    /\ ~g_data_runloop.nbio.msg_queue.alloc
    /\ heap.lost.nbio /\ heap.lost.rpng

(* C15: the work of one tick is bounded by the step counts: at most
   nbio.pos_increment reader iterate calls; in a tick of the parse phase at
   most image.pos_increment decoder calls in total (the process call of the
   parse-done callback included); in a tick of the process phase at most
   image.processing_pos_increment process calls.  Stated as the claim has it;
   the code does not satisfy it. *)
C15_TickWorkBounded ==
    /\ obs.calls.nbio_iterate <= nbio.pos_increment
    /\ obs.calls.rpng_iterate > 0 =>
           obs.calls.rpng_iterate + obs.calls.rpng_process <= image.pos_increment
    /\ obs.calls.rpng_iterate = 0 =>
           obs.calls.rpng_process <= image.processing_pos_increment

(* C16: when the parse-done callback finds IHDR, IDAT or IEND missing, the
   decode is aborted: no process call is made, the process phase is not armed
   (is_blocking_on_processing stays false, image.cb stays the parse-done
   callback) and load_background is not called for the request, then or
   later. *)
ParseDoneChunksMissing ==
    /\ obs.calls.rpng_iterate > 0
    /\ obs.calls.image_cb = "cb_image_menu_wallpaper"
    /\ ~(heap.rpng.has_ihdr /\ heap.rpng.has_idat /\ heap.rpng.has_iend)

DecodeNotArmed ==
    /\ ~image.is_blocking_on_processing
    /\ image.cb = "cb_image_menu_wallpaper"
    /\ obs.load_background = 0

C16_MissingChunksAbort ==
    /\ [](ParseDoneChunksMissing => obs.calls.rpng_process = 0)
    /\ [](ParseDoneChunksMissing => []DecodeNotArmed)

C16_Witness ==
    /\ ParseDoneChunksMissing /\ DecodeNotArmed
    /\ image.handle # NULL /\ ~heap.rpng.freed
    /\ heap.rpng.has_ihdr /\ heap.rpng.has_iend /\ ~heap.rpng.has_idat

(* C17: a request that went through poll, iterate to the end, parse and
   parse_free leaves its pipeline as it was before the open: when a tick
   releases the reader, nbio.frame_count is 0, is_blocking and is_finished are
   false and the NBIO queue is empty; when a tick releases the decoder,
   image.frame_count and image.processing_frame_count are 0 and the image
   queue is empty. *)
C17_CycleReturnsState ==
    [][ frame' # frame =>
          /\ (nbio.handle # NULL /\ g_data_runloop'.nbio.handle = NULL) =>
                 /\ g_data_runloop'.nbio.frame_count = 0
                 /\ ~g_data_runloop'.nbio.is_blocking
                 /\ ~g_data_runloop'.nbio.is_finished
                 /\ g_data_runloop'.nbio.msg_queue.msgs = <<>>
                 /\ heap'.nbio = NoReader
          /\ (image.handle # NULL /\ g_data_runloop'.nbio.image.handle = NULL) =>
                 /\ g_data_runloop'.nbio.image.frame_count = 0
                 /\ g_data_runloop'.nbio.image.processing_frame_count = 0
                 /\ g_data_runloop'.nbio.image.msg_queue.msgs = <<>>
                 /\ heap'.rpng = NoDecoder ]_vars

C17_Witness ==
    /\ nbio.handle = NULL /\ image.handle = NULL
    /\ obs.load_background = 1 /\ obs.calls.nbio_free_under_decoder
    /\ nbio.frame_count = 0 /\ image.frame_count = 0
    /\ image.processing_frame_count = 0
    /\ nbio.pos_increment = NbioPosIncrement

(* C18: the decoder is released only by the image parse_free and once: a
   released decoder is never still pointed to by image.handle, and no tick
   iterates, processes or releases a released decoder.  Stated as the claim
   has it; the code does not satisfy it. *)
C18_DecoderReleasedOnce ==
    /\ ~(image.handle # NULL /\ heap.rpng.freed)
    /\ ~obs.calls.rpng_use_of_freed
    /\ ~obs.calls.rpng_free_of_freed

(* C19: the callback bound when a connection is promoted depends only on the
   token of the request that created the connection: a request with an empty
   token is promoted with no callback (and none is called for it), whatever
   earlier requests named.  Stated as the claim has it; the code does not
   satisfy it. *)
C19_CallbackFromOwnToken ==
    obs.http_token = "" =>
        /\ http.handle # NULL => http.cb = NULL
        /\ obs.http_cb = 0

(* C20: in threaded mode the worker never calls slock_lock on the state lock
   (and so never runs a tick) before init has created the lock.  Stated as
   the claim has it; the code does not satisfy it. *)
C20_WorkerLocksCreatedLock == wpc # "crash"

(* C21: for a request accepted by the NBIO poll the completion callback runs
   at most once and the reader is not iterated after it reported the end: a
   tick that follows the tick of the callback, on the same reader, neither
   calls the callback nor nbio_iterate.  Stated as the claim has it; the code
   does not satisfy it. *)
C21_NbioCallbackOnce ==
    [][ (obs.calls.nbio_cb /\ nbio.handle # NULL /\ frame' # frame)
        => /\ ~obs'.calls.nbio_cb
           /\ obs'.calls.nbio_iterate = 0 ]_vars

====
